---- MODULE Spec2Model ----
(***************************************************************************)
(* Plan Execution & Trace Engine of Brain Trust.                           *)
(*                                                                         *)
(* The layers modelled.                                                    *)
(*  - The chat client (frontend/components/WillowChat.tsx) and the trace   *)
(*    list it feeds (LegionInterface.handleExecutionUpdate): translated    *)
(*    from the TypeScript source.                                          *)
(*  - The backend behind /api/v2/intent and /api/v2/intent/approve         *)
(*    (Approval Gate and Dispatcher).  Its Python code is not part of the  *)
(*    sources at hand, so it is modelled from the design document          *)
(*    (sections 4.1, 4.2, 4.4 and 5).                                      *)
(*  - The MCP chorus tool chorus_full_review (handleChorusTool), the       *)
(*    fan-out / fan-in whose code is at hand.                              *)
(*  - The readers of the trace: ExecutionTraceView, mounted in Dev Mode,   *)
(*    and the Terminal with its WebSocket, both from the source; the       *)
(*    server end of the observer channel is modelled from the design       *)
(*    document (section 5).                                                *)
(***************************************************************************)
EXTENDS Integers, Sequences, FiniteSets, TLC

\* ---------------------------------------------------------------- bounds
\* MaxPlans: plans the planner proposes in one session.
\* MaxSteps: Steps the planner proposes in one session, over all its plans.
MaxPlans == 2
MaxSteps == 3
MaxPersonas == 3
\* MaxTools: tool invocations the workers report in one session, over all Steps.
MaxTools == 1
\* MaxEvents: updates kept in the record of one session.
MaxEvents == 4
\* MaxUpdates: updates the Aggregator emits for the Plan an observer watches.
MaxUpdates == 5

\* Retry bound of one Step invocation (design document 4.2: "a small fixed
\* bound"; the value is configuration).
MaxRetries == 1

PlanIds == 1..MaxPlans

VARIABLES
    \* ---- backend (Approval Gate + Dispatcher)
    planStatus,     \* [PlanIds -> "none" | "proposed" | "approved" | "rejected" | "running" | "completed" | "failed"]
    tiers,          \* [PlanIds -> sequence of tier numbers, one per Step, fixed at proposal]
    stepStatus,     \* [PlanIds -> sequence of "pending" | "running" | "completed" | "failed" | "blocked"]
    stepError,      \* [PlanIds -> sequence of "none" | "error" | "timeout" | "transient" | "cancelled"]
    attempts,       \* [PlanIds -> sequence of retries used by the invocation in progress]
    decision,       \* [PlanIds -> "none" | "approve" | "reject" | "modify"], the decision the gate accepted
    cancelled,      \* set of plan ids on which cancel(plan_id) took effect
    toolsUsed,      \* [PlanIds -> sequence of tools_used lists, one per Step]
    \* ---- chat client (WillowChat) and trace list (LegionInterface)
    isLoading,      \* useState isLoading
    currentPlan,    \* useState currentPlan: a plan id, 0 for null
    request,        \* the fetch in flight
    executions,     \* useState executions: sequence of ExecutionTrace
    userApproved,   \* plan ids for which the user pressed Execute
    devMode,        \* useState devMode: ExecutionTraceView is mounted while it is on
    recorded,       \* history: the updates handed to handleExecutionUpdate, while recording is on
    \* ---- chorus_full_review
    personas,       \* args.personas: sequence of persona keys
    feedback,       \* state of each feedbackPromise
    review,         \* what handleChorusTool returned
    \* ---- observer channel: the Aggregator's stream and the Terminal
    emitted,        \* number of updates the Aggregator has folded into the Trace
    socket,         \* the Terminal's WebSocket: "none" | "connecting" | "open" | "closed"
    wire,           \* messages sent on the connection and not yet delivered
    logs,           \* useState logs of the Terminal
    \* ---- MCP server (index.js) and the sessions table (tools/memory.js)
    sessions,       \* rows of the sessions table, in the order they were inserted
    now,            \* the clock new Date() reads; one tick per tool call
    reply,          \* the last tool call: its name, what its handler raised, what the request handler did
    \* ---- LegionInterface: the agents shown beside the chat
    activeAgents    \* useState activeAgents: sequence of agents, Willow first

backendVars == <<planStatus, tiers, stepStatus, stepError, attempts, decision, cancelled, toolsUsed>>
clientVars == <<isLoading, currentPlan, request, executions, userApproved, devMode, recorded>>
chorusVars == <<personas, feedback, review>>
streamVars == <<emitted, socket, wire, logs>>
mcpVars == <<sessions, now, reply>>
agentVars == <<activeAgents>>
vars == <<planStatus, tiers, stepStatus, stepError, attempts, decision, cancelled, toolsUsed,
          isLoading, currentPlan, request, executions, userApproved, devMode, recorded,
          personas, feedback, review,
          emitted, socket, wire, logs,
          sessions, now, reply,
          activeAgents>>

\* ------------------------------------------------------------ data model
Terminal == {"completed", "failed", "blocked"}

\* The tier assignments a planner may propose: the first Step is in tier 1
\* and each next Step is in the same tier or in the next one.
Shapes ==
    {s \in UNION {[1..n -> 1..n] : n \in 1..MaxSteps} :
        /\ s[1] = 1
        /\ \A i \in 2..Len(s) : s[i] \in {s[i-1], s[i-1] + 1}}

StepIdx(p) == 1..Len(tiers[p])

\* The number of Steps of the plans 1..n proposed so far.
RECURSIVE StepsProposed(_)
StepsProposed(n) == IF n = 0 THEN 0 ELSE Len(tiers[n]) + StepsProposed(n - 1)

NoRequest == [kind |-> "none", plan |-> 0, action |-> "none", stage |-> "none"]

\* The entry of Willow in the list of active agents.
Willow(status) == [role |-> "Executive Conductor", status |-> status]

\* No tool call has been made yet.
NoCall == [name |-> [prefix |-> "none", tool |-> "none"], raised |-> <<>>,
           result |-> [isError |-> FALSE, text |-> <<>>]]

\* ------------------------------------------------------------------ Init
Init ==
    /\ planStatus = [p \in PlanIds |-> "none"]
    /\ tiers = [p \in PlanIds |-> <<>>]
    /\ stepStatus = [p \in PlanIds |-> <<>>]
    /\ stepError = [p \in PlanIds |-> <<>>]
    /\ attempts = [p \in PlanIds |-> <<>>]
    /\ decision = [p \in PlanIds |-> "none"]
    /\ cancelled = {}
    /\ toolsUsed = [p \in PlanIds |-> <<>>]
    /\ isLoading = FALSE
    /\ currentPlan = 0
    /\ request = NoRequest
    /\ executions = <<>>
    /\ userApproved = {}
    /\ devMode = FALSE
    /\ recorded = [on |-> FALSE, events |-> <<>>]
    /\ personas = <<>>
    /\ feedback = <<>>
    /\ review = [state |-> "idle", included |-> {}]
    /\ emitted = 0
    /\ socket = "none"
    /\ wire = <<>>
    /\ logs = <<>>
    /\ sessions = <<>>
    /\ now = 0
    /\ reply = NoCall
    /\ activeAgents = <<Willow("idle")>>

\* ===================================================== backend: planner
\* propose(intent) -> Plan{proposed}: a fresh plan id, every Step pending.
NextPlanId == CHOOSE p \in PlanIds : planStatus[p] = "none" /\ \A q \in PlanIds : q < p => planStatus[q] # "none"

Propose(p, shape) ==
    /\ planStatus' = [planStatus EXCEPT ![p] = "proposed"]
    /\ tiers' = [tiers EXCEPT ![p] = shape]
    /\ stepStatus' = [stepStatus EXCEPT ![p] = [i \in 1..Len(shape) |-> "pending"]]
    /\ stepError' = [stepError EXCEPT ![p] = [i \in 1..Len(shape) |-> "none"]]
    /\ attempts' = [attempts EXCEPT ![p] = [i \in 1..Len(shape) |-> 0]]
    /\ toolsUsed' = [toolsUsed EXCEPT ![p] = [i \in 1..Len(shape) |-> <<>>]]
    /\ UNCHANGED <<decision, cancelled>>

\* =============================================== backend: Approval Gate
\* Mutant of DecideOutcome: the gate forgets that it has decided.
DecideOutcomeForgetful(p, d) ==
    IF d = "approve" THEN "accepted"
    ELSE IF d = "modify" THEN "replan"
    ELSE "declined"

\* decide(plan_id, decision): the outcome of the call.
DecideOutcome(p, d) ==
    IF decision[p] # "none" THEN "AlreadyDecided"
    ELSE IF d = "approve" THEN "accepted"
    ELSE IF d = "modify" THEN "replan"
    ELSE "declined"

\* decide(plan_id, decision): the effect of the call on the Plan.  modify is
\* not a state transition: the Plan keeps its status and the planner is to
\* be asked again.
Decide(p, d) ==
    IF DecideOutcome(p, d) = "AlreadyDecided"
    THEN UNCHANGED <<planStatus, decision>>
    ELSE /\ decision' = [decision EXCEPT ![p] = d]
         /\ planStatus' = [planStatus EXCEPT ![p] =
                IF d = "approve" THEN "approved"
                ELSE IF d = "reject" THEN "rejected"
                ELSE planStatus[p]]

\* ================================================== backend: Dispatcher
TierSteps(p, t) == {i \in StepIdx(p) : tiers[p][i] = t}
PendingSteps(p) == {i \in StepIdx(p) : stepStatus[p][i] = "pending"}
RunningSteps(p) == {i \in StepIdx(p) : stepStatus[p][i] = "running"}

\* The tier the Dispatcher turns to next: the lowest tier with a pending Step.
NextTier(p) == CHOOSE t \in {tiers[p][i] : i \in PendingSteps(p)} :
                   \A i \in PendingSteps(p) : t <= tiers[p][i]

\* Mutant of StartTierStatus: only the first Step of the tier is started.
StartTierStatusFirstOnly(p, t) ==
    [i \in StepIdx(p) |-> IF /\ tiers[p][i] = t
                             /\ stepStatus[p][i] = "pending"
                             /\ \A j \in 1..(i - 1) : tiers[p][j] # t
                          THEN "running" ELSE stepStatus[p][i]]

\* Starting a tier: every Step of the tier goes pending -> running together.
StartTierStatus(p, t) ==
    [i \in StepIdx(p) |-> IF tiers[p][i] = t /\ stepStatus[p][i] = "pending"
                          THEN "running" ELSE stepStatus[p][i]]

\* approved -> running: the Dispatcher begins the first tier.
DispatchBegin(p) ==
    /\ planStatus[p] = "approved"
    /\ planStatus' = [planStatus EXCEPT ![p] = "running"]
    /\ stepStatus' = [stepStatus EXCEPT ![p] = StartTierStatus(p, 1)]
    /\ UNCHANGED <<tiers, stepError, attempts, decision, cancelled, toolsUsed>>
    /\ UNCHANGED clientVars /\ UNCHANGED chorusVars /\ UNCHANGED mcpVars /\ UNCHANGED agentVars /\ UNCHANGED streamVars

\* The tool names a worker may report.
Tools == {"drive_read"}

\* The tool invocations reported so far by the Steps 1..n of Plan p, and by
\* the Steps of the Plans 1..n.
RECURSIVE ToolsOfPlan(_, _)
ToolsOfPlan(p, n) == IF n = 0 THEN 0 ELSE Len(toolsUsed[p][n]) + ToolsOfPlan(p, n - 1)

RECURSIVE ToolsReported(_)
ToolsReported(n) == IF n = 0 THEN 0 ELSE ToolsOfPlan(n, Len(toolsUsed[n])) + ToolsReported(n - 1)

\* Mutant of MayUseTool: a tool report is taken for any Step that has started,
\* finished or not.
MayUseToolOnceStarted(status) == status \notin {"pending", "blocked"}

\* A tool report belongs to an invocation in progress.
MayUseTool(status) == status = "running"

\* StepToolUsed: the worker of a running Step invoked a tool; the name is
\* appended to the Step's tools_used.
StepToolUsed(p, i, tool) ==
    /\ MayUseTool(stepStatus[p][i])
    /\ ToolsReported(MaxPlans) < MaxTools
    /\ toolsUsed' = [toolsUsed EXCEPT ![p][i] = Append(@, tool)]
    /\ UNCHANGED <<planStatus, tiers, stepStatus, stepError, attempts, decision, cancelled>>
    /\ UNCHANGED clientVars /\ UNCHANGED chorusVars /\ UNCHANGED mcpVars /\ UNCHANGED agentVars /\ UNCHANGED streamVars

\* running -> completed: the worker returned an output.
StepCompleted(p, i) ==
    /\ planStatus[p] = "running"
    /\ stepStatus[p][i] = "running"
    /\ stepStatus' = [stepStatus EXCEPT ![p][i] = "completed"]
    /\ attempts' = [attempts EXCEPT ![p][i] = 0]
    /\ UNCHANGED <<planStatus, tiers, stepError, decision, cancelled, toolsUsed>>
    /\ UNCHANGED clientVars /\ UNCHANGED chorusVars /\ UNCHANGED mcpVars /\ UNCHANGED agentVars /\ UNCHANGED streamVars

\* running -> failed: the work raised an error, or the per-step timeout expired.
StepFailed(p, i, why) ==
    /\ planStatus[p] = "running"
    /\ stepStatus[p][i] = "running"
    /\ stepStatus' = [stepStatus EXCEPT ![p][i] = "failed"]
    /\ stepError' = [stepError EXCEPT ![p][i] = why]
    /\ attempts' = [attempts EXCEPT ![p][i] = 0]
    /\ UNCHANGED <<planStatus, tiers, decision, cancelled, toolsUsed>>
    /\ UNCHANGED clientVars /\ UNCHANGED chorusVars /\ UNCHANGED mcpVars /\ UNCHANGED agentVars /\ UNCHANGED streamVars

\* Mutant of MayRetry: one retry too many.
MayRetryOffByOne(n) == n <= MaxRetries

\* A transient invocation error may be retried while retries are left.
MayRetry(n) == n < MaxRetries

\* A transient invocation error: retried with the Step still running, or,
\* with the retries used up, running -> failed.
StepTransientError(p, i) ==
    /\ planStatus[p] = "running"
    /\ stepStatus[p][i] = "running"
    /\ IF MayRetry(attempts[p][i])
       THEN /\ attempts' = [attempts EXCEPT ![p][i] = @ + 1]
            /\ UNCHANGED <<stepStatus, stepError>>
       ELSE /\ stepStatus' = [stepStatus EXCEPT ![p][i] = "failed"]
            /\ stepError' = [stepError EXCEPT ![p][i] = "transient"]
            /\ attempts' = [attempts EXCEPT ![p][i] = 0]
    /\ UNCHANGED <<planStatus, tiers, decision, cancelled, toolsUsed>>
    /\ UNCHANGED clientVars /\ UNCHANGED chorusVars /\ UNCHANGED mcpVars /\ UNCHANGED agentVars /\ UNCHANGED streamVars

\* Cascading block: every Step of the tier before t failed.
TierAllFailed(p, t) == \A i \in TierSteps(p, t) : stepStatus[p][i] = "failed"

\* The statuses after the Dispatcher advances past a finished tier.
AdvanceStatus(p) ==
    IF TierAllFailed(p, NextTier(p) - 1)
    THEN [i \in StepIdx(p) |-> IF stepStatus[p][i] = "pending" THEN "blocked" ELSE stepStatus[p][i]]
    ELSE StartTierStatus(p, NextTier(p))

\* Every Step of the tier in flight is terminal: start the next tier, or
\* block all later tiers.
Advance(p) ==
    /\ planStatus[p] = "running"
    /\ RunningSteps(p) = {}
    /\ PendingSteps(p) # {}
    /\ stepStatus' = [stepStatus EXCEPT ![p] = AdvanceStatus(p)]
    /\ UNCHANGED <<planStatus, tiers, stepError, attempts, decision, cancelled, toolsUsed>>
    /\ UNCHANGED clientVars /\ UNCHANGED chorusVars /\ UNCHANGED mcpVars /\ UNCHANGED agentVars /\ UNCHANGED streamVars

\* The verdicts open to the Dispatcher once every Step is terminal (4.1).
Verdicts(p) ==
    IF \A i \in StepIdx(p) : stepStatus[p][i] = "completed" THEN {"completed"}
    ELSE IF \E i \in StepIdx(p) : stepStatus[p][i] = "completed" THEN {"completed", "failed"}
    ELSE {"failed"}

\* running -> completed | failed, once, after the last Step is terminal.
Finish(p) ==
    /\ planStatus[p] = "running"
    /\ \A i \in StepIdx(p) : stepStatus[p][i] \in Terminal
    /\ \E v \in Verdicts(p) : planStatus' = [planStatus EXCEPT ![p] = v]
    /\ UNCHANGED <<tiers, stepStatus, stepError, attempts, decision, cancelled, toolsUsed>>
    /\ UNCHANGED clientVars /\ UNCHANGED chorusVars /\ UNCHANGED mcpVars /\ UNCHANGED agentVars /\ UNCHANGED streamVars

\* Mutant of CancelStatus: pending Steps are left pending.
CancelStatusRunningOnly(p) ==
    [i \in StepIdx(p) |-> IF stepStatus[p][i] = "running" THEN "failed" ELSE stepStatus[p][i]]

\* The Step statuses after cancel(plan_id).
CancelStatus(p) ==
    [i \in StepIdx(p) |-> IF stepStatus[p][i] = "running" THEN "failed"
                          ELSE IF stepStatus[p][i] = "pending" THEN "blocked"
                          ELSE stepStatus[p][i]]

\* cancel(plan_id) on a Plan the Dispatcher holds and has not finished.
Cancel(p) ==
    /\ planStatus[p] \in {"approved", "running"}
    /\ planStatus' = [planStatus EXCEPT ![p] = "failed"]
    /\ stepStatus' = [stepStatus EXCEPT ![p] = CancelStatus(p)]
    /\ stepError' = [stepError EXCEPT ![p] =
           [i \in StepIdx(p) |-> IF stepStatus[p][i] = "running" THEN "cancelled" ELSE stepError[p][i]]]
    /\ attempts' = [attempts EXCEPT ![p] = [i \in StepIdx(p) |-> 0]]
    /\ cancelled' = cancelled \cup {p}
    /\ UNCHANGED <<tiers, decision, toolsUsed>>
    /\ UNCHANGED clientVars /\ UNCHANGED chorusVars /\ UNCHANGED mcpVars /\ UNCHANGED agentVars /\ UNCHANGED streamVars

\* ============================================ backend: approve response
\* The entry of execution_result.step_results for Step i of Plan p.
StepResult(p, i) ==
    [step_id |-> i,
     result |-> IF stepStatus[p][i] = "completed" THEN "success"
                ELSE IF stepStatus[p][i] = "blocked" THEN "blocked" ELSE "failed",
     output |-> stepStatus[p][i] = "completed",
     error |-> stepError[p][i],
     tools_called |-> toolsUsed[p][i]]

\* data.execution_result of the approve response for a finished Plan.
ExecutionResult(p) ==
    [present |-> TRUE,
     status |-> planStatus[p],
     step_results |-> [i \in StepIdx(p) |-> StepResult(p, i)]]

\* A response without execution_result.
NoResult == [present |-> FALSE, status |-> "none", step_results |-> <<>>]

\* ======================================= WillowChat.createExecutionTrace
\* Mutant of FindStepResult: the lookup compares against the wrong key
\* (the 0-based index instead of the Step id), so the last Step finds nothing.
FindStepResultWrongKey(results, id) ==
    IF \E k \in 1..Len(results) : results[k].step_id = id + 1
    THEN CHOOSE k \in 1..Len(results) : results[k].step_id = id + 1
    ELSE 0

\* result?.step_results?.find(r => r.step_id === step.id): the index of the
\* first matching entry, 0 when there is none.
FindStepResult(results, id) ==
    IF \E k \in 1..Len(results) : results[k].step_id = id
    THEN CHOOSE k \in 1..Len(results) :
             /\ results[k].step_id = id
             /\ \A j \in 1..(k - 1) : results[j].step_id # id
    ELSE 0

\* Mutant of TraceStepStatus: the 'blocked' case is missing, so a blocked
\* Step is shown as failed.
TraceStepStatusNoBlocked(found, result, status, idx) ==
    IF found
    THEN (IF result = "success" THEN "completed" ELSE "failed")
    ELSE (IF status = "running" THEN (IF idx = 0 THEN "running" ELSE "pending")
          ELSE "pending")

\* The status expression of a StepTrace; idx counts from 0 as in the source.
TraceStepStatus(found, result, status, idx) ==
    IF found
    THEN (IF result = "success" THEN "completed"
          ELSE IF result = "blocked" THEN "blocked" ELSE "failed")
    ELSE (IF status = "running" THEN (IF idx = 0 THEN "running" ELSE "pending")
          ELSE "pending")

\* Mutant of TraceStepOutput: the output falls back to whatever the step
\* result carries, so every Step found in the result shows an output.
TraceStepOutputAnyResult(k, results) == k # 0

\* line 175, output: stepResult?.output.  TRUE stands for a text, FALSE for
\* undefined.
TraceStepOutput(k, results) == IF k # 0 THEN results[k].output ELSE FALSE

\* Mutant of TraceStepError: the error of the step result is not copied.
TraceStepErrorDropped(k, results) == "none"

\* line 176, error: stepResult?.error.  "none" stands for undefined.
TraceStepError(k, results) == IF k # 0 THEN results[k].error ELSE "none"

createExecutionTrace(p, status, result) ==
    [id |-> p,
     status |-> status,
     steps |-> [i \in StepIdx(p) |->
        LET k == FindStepResult(result.step_results, i) IN
        [id |-> i,
         order |-> tiers[p][i],
         status |-> TraceStepStatus(k # 0, IF k # 0 THEN result.step_results[k].result ELSE "none",
                                    status, i - 1),
         output |-> TraceStepOutput(k, result.step_results),
         error |-> TraceStepError(k, result.step_results),
         tools_called |-> IF k # 0 THEN result.step_results[k].tools_called ELSE <<>>]]]

\* ================================ LegionInterface.handleExecutionUpdate
\* Mutant of FindExecution: the predicate does not compare ids, so the first
\* entry is found whenever there is one.
FindExecutionFirst(prev, id) == IF prev # <<>> THEN 1 ELSE 0

\* prev.findIndex(e => e.id === execution.id), 0 when absent.
FindExecution(prev, id) ==
    IF \E k \in 1..Len(prev) : prev[k].id = id
    THEN CHOOSE k \in 1..Len(prev) : prev[k].id = id /\ \A j \in 1..(k - 1) : prev[j].id # id
    ELSE 0

\* Mutant of ReplaceAt: the entry is left where it is and the update is
\* appended all the same.
ReplaceAtKeepsOld(prev, existing, execution) == Append(prev, execution)

\* lines 693-695: const updated = [...prev]; updated[existing] = execution.
ReplaceAt(prev, existing, execution) == [prev EXCEPT ![existing] = execution]

\* Mutant of handleExecutionUpdate: the list is set to the update alone.
handleExecutionUpdateLatestOnly(prev, execution) == <<execution>>

handleExecutionUpdate(prev, execution) ==
    LET existing == FindExecution(prev, execution.id) IN
    IF existing > 0 THEN ReplaceAt(prev, existing, execution)
    ELSE Append(prev, execution)

\* ============================================== ExecutionTraceView: render
RECURSIVE Reverse(_)
Reverse(q) == IF q = <<>> THEN <<>> ELSE Append(Reverse(Tail(q)), Head(q))

\* line 258, [...executions].reverse(): the list the view shows, newest first.
ExecutionTraceViewItems(ex) == Reverse(ex)

\* Mutant of ExecutionItemSteps: the completed Steps are listed first.
ExecutionItemStepsCompletedFirst(steps) ==
    SelectSeq(steps, LAMBDA st : st.status = "completed")
    \o SelectSeq(steps, LAMBDA st : st.status # "completed")

\* ExecutionItem, execution.steps.map(...): the Steps as the item lists them,
\* in the order of the array.
ExecutionItemSteps(steps) == steps

\* Mutant of ExecutionsAfterRender: the view reverses the array it was
\* given (executions.reverse()), which reverses the state array in place.
ExecutionsAfterRenderInPlace(ex) == Reverse(ex)

\* The executions array after ExecutionTraceView rendered it: the view
\* reverses a copy (the spread of line 258), the array itself is left alone.
ExecutionsAfterRender(ex) == ex

\* ======================================= LegionInterface: active agents
\* step.agent_role of the Steps the planner is modelled to propose: the
\* first and the third Step of a Plan go to the same agent.
AgentRole(id) == IF id % 2 = 1 THEN "Writer" ELSE "Editor"

\* newAgents.find(a => a.role === step.agent_role), 0 when absent.
FindAgent(agents, role) ==
    IF \E k \in 1..Len(agents) : agents[k].role = role
    THEN CHOOSE k \in 1..Len(agents) : agents[k].role = role /\ \A j \in 1..(k - 1) : agents[j].role # role
    ELSE 0

\* The body of execution.steps.forEach, lines 706-721.
AgentsAfterStep(agents, step) ==
    LET existingAgent == FindAgent(agents, AgentRole(step.id)) IN
    IF existingAgent = 0
    THEN Append(agents, [role |-> AgentRole(step.id),
                         status |-> IF step.status = "running" THEN "working"
                                    ELSE IF step.status = "completed" THEN "done"
                                    ELSE "idle"])
    ELSE IF step.status = "running"
    THEN [agents EXCEPT ![existingAgent].status = "working"]
    ELSE IF step.status = "completed" /\ agents[existingAgent].status # "working"
    THEN [agents EXCEPT ![existingAgent].status = "done"]
    ELSE agents

RECURSIVE AgentsAfterSteps(_, _)
AgentsAfterSteps(agents, steps) ==
    IF steps = <<>> THEN agents
    ELSE AgentsAfterSteps(AgentsAfterStep(agents, Head(steps)), Tail(steps))

\* lines 723-724: Willow's own status follows the status of the execution.
WillowStatus(status) ==
    IF status = "running" THEN "working"
    ELSE IF status = "completed" THEN "done"
    ELSE "idle"

\* handleExecutionUpdate, lines 701-725: the list of agents is built anew
\* from the execution it was given.
UpdateAgents(execution) ==
    [AgentsAfterSteps(<<Willow("idle")>>, execution.steps) EXCEPT ![1].status = WillowStatus(execution.status)]

\* Mutant of handleExecutionComplete: the agents are left as they are.
handleExecutionCompleteKeeps(prev) == prev

\* handleExecutionComplete: every agent is set to idle.
handleExecutionComplete(prev) == [k \in 1..Len(prev) |-> [prev[k] EXCEPT !.status = "idle"]]

\* setExecutions(prev => ...) followed by the render it causes: the view is
\* mounted, and so renders, only while devMode is on.
Publish(prev, execution) ==
    IF devMode THEN ExecutionsAfterRender(handleExecutionUpdate(prev, execution))
    ELSE handleExecutionUpdate(prev, execution)

\* The record after an update was handed to handleExecutionUpdate.
Recorded(execution) ==
    IF recorded.on THEN [recorded EXCEPT !.events = Append(@, execution)] ELSE recorded

\* The record has room for one more update.
CanRecord == ~recorded.on \/ Len(recorded.events) < MaxEvents

\* The record is switched on, before any update was published.
StartRecording ==
    /\ ~recorded.on
    /\ executions = <<>>
    /\ recorded' = [on |-> TRUE, events |-> <<>>]
    /\ UNCHANGED <<isLoading, currentPlan, request, executions, userApproved, devMode>>
    /\ UNCHANGED backendVars /\ UNCHANGED chorusVars /\ UNCHANGED mcpVars /\ UNCHANGED agentVars /\ UNCHANGED streamVars

\* setDevMode(!devMode): turning it on mounts ExecutionTraceView, which
\* renders the executions of the moment; turning it off unmounts the view.
SetDevMode ==
    /\ devMode' = ~devMode
    /\ executions' = IF ~devMode THEN ExecutionsAfterRender(executions) ELSE executions
    /\ UNCHANGED <<isLoading, currentPlan, request, userApproved, recorded>>
    /\ UNCHANGED backendVars /\ UNCHANGED chorusVars /\ UNCHANGED mcpVars /\ UNCHANGED agentVars /\ UNCHANGED streamVars

\* ================================================ WillowChat.sendMessage
\* Mutant of Finally: isLoading is reset at the end of the try block only.
FinallyAfterTryOnly(threw) == threw

\* finally { setIsLoading(false) }, of sendMessage and of handleApprove: the
\* value of isLoading once the call is over, whether or not the try block threw.
Finally(threw) == FALSE

\* sendMessage up to the await of fetch (content is non-empty).
SendMessage ==
    /\ ~isLoading
    /\ isLoading' = TRUE
    /\ request' = [kind |-> "intent", plan |-> 0, action |-> "none", stage |-> "sent"]
    /\ UNCHANGED <<currentPlan, executions, userApproved, devMode, recorded>>
    /\ UNCHANGED backendVars /\ UNCHANGED chorusVars /\ UNCHANGED mcpVars /\ UNCHANGED agentVars /\ UNCHANGED streamVars

\* The planner proposed a Plan and the response arrived: data.plan is set.
IntentResponsePlan ==
    /\ request.kind = "intent"
    /\ \E p \in PlanIds : planStatus[p] = "none"
    /\ \E shape \in Shapes :
          /\ StepsProposed(MaxPlans) + Len(shape) <= MaxSteps
          /\ Propose(NextPlanId, shape)
    /\ currentPlan' = NextPlanId
    /\ isLoading' = Finally(FALSE)
    /\ request' = NoRequest
    /\ UNCHANGED <<executions, userApproved, devMode, recorded>>
    /\ UNCHANGED chorusVars /\ UNCHANGED mcpVars /\ UNCHANGED agentVars /\ UNCHANGED streamVars

\* The response carries no plan (a question back to the user).
IntentResponseNoPlan ==
    /\ request.kind = "intent"
    /\ isLoading' = Finally(FALSE)
    /\ request' = NoRequest
    /\ UNCHANGED <<currentPlan, executions, userApproved, devMode, recorded>>
    /\ UNCHANGED backendVars /\ UNCHANGED chorusVars /\ UNCHANGED mcpVars /\ UNCHANGED agentVars /\ UNCHANGED streamVars

\* fetch threw, the 120 s abort fired, or the server answered !response.ok.
IntentThrow ==
    /\ request.kind = "intent"
    /\ isLoading' = Finally(TRUE)
    /\ request' = NoRequest
    /\ UNCHANGED <<currentPlan, executions, userApproved, devMode, recorded>>
    /\ UNCHANGED backendVars /\ UNCHANGED chorusVars /\ UNCHANGED mcpVars /\ UNCHANGED agentVars /\ UNCHANGED streamVars

\* =============================================== WillowChat.handleApprove
\* Mutant of PublishesRunning: the guard on the action is lost.
PublishesRunningAnyAction(action) == TRUE

\* line 254: the running trace is published before the request is sent.
PublishesRunning(action) == action = "approve"

\* Mutant of ButtonsRendered: the buttons stay while a request is in flight.
ButtonsRenderedWhileLoading == currentPlan # 0

\* lines 484-511, {currentPlan && !isLoading && (...)}: the Cancel and
\* Execute buttons are rendered only while a plan is shown and no request
\* is in flight.
ButtonsRendered == currentPlan # 0 /\ ~isLoading

\* handleApprove up to the await of fetch: a button was pressed, and
\* currentPlan is set.
HandleApprove(action) ==
    /\ ButtonsRendered
    /\ currentPlan # 0
    /\ CanRecord
    /\ isLoading' = TRUE
    /\ executions' = IF PublishesRunning(action)
                     THEN Publish(executions, createExecutionTrace(currentPlan, "running", NoResult))
                     ELSE executions
    /\ recorded' = IF PublishesRunning(action)
                   THEN Recorded(createExecutionTrace(currentPlan, "running", NoResult))
                   ELSE recorded
    /\ userApproved' = IF action = "approve" THEN userApproved \cup {currentPlan} ELSE userApproved
    /\ request' = [kind |-> "approve", plan |-> currentPlan, action |-> action, stage |-> "sent"]
    /\ UNCHANGED <<currentPlan, devMode>>
    /\ UNCHANGED backendVars /\ UNCHANGED chorusVars /\ UNCHANGED mcpVars /\ UNCHANGED streamVars
    /\ activeAgents' = IF PublishesRunning(action)
                       THEN UpdateAgents(createExecutionTrace(currentPlan, "running", NoResult))
                       ELSE activeAgents

\* Mutant of GateDecision: whatever is not 'cancel' is taken as approve.
GateDecisionTwoWay(action) == IF action = "cancel" THEN "reject" ELSE "approve"

\* The decision the endpoint hands to the gate for the action of the
\* request body.  The client's 'cancel' is the gate's reject.
GateDecision(action) ==
    IF action = "approve" THEN "approve"
    ELSE IF action = "modify" THEN "modify"
    ELSE "reject"

\* The backend receives the approve request and calls decide.
BackendDecide ==
    /\ request.kind = "approve"
    /\ request.stage = "sent"
    /\ Decide(request.plan, GateDecision(request.action))
    /\ request' = [request EXCEPT !.stage = DecideOutcome(request.plan, GateDecision(request.action))]
    /\ UNCHANGED <<tiers, stepStatus, stepError, attempts, cancelled, toolsUsed>>
    /\ UNCHANGED <<isLoading, currentPlan, executions, userApproved, devMode, recorded>>
    /\ UNCHANGED chorusVars /\ UNCHANGED mcpVars /\ UNCHANGED agentVars /\ UNCHANGED streamVars

\* The body the backend answers with, once it answers.
ResponseReady ==
    /\ request.kind = "approve"
    /\ \/ request.stage \in {"declined", "replan", "AlreadyDecided"}
       \/ request.stage = "accepted" /\ planStatus[request.plan] \in {"completed", "failed"}

ResponseResult ==
    IF request.stage = "accepted" THEN ExecutionResult(request.plan) ELSE NoResult

\* line 282: the trace status taken from execution_result.status.
ResultTraceStatus(s) == IF s = "completed" THEN "completed" ELSE "failed"

\* Mutant of ClearsPlan: the plan is kept whatever the action.
ClearsPlanNever(action) == FALSE

\* line 285: the plan is cleared after approve and cancel.
ClearsPlan(action) == action = "approve" \/ action = "cancel"

\* handleApprove after the await: the try block and finally.
ApproveResponse ==
    /\ ResponseReady
    /\ CanRecord
    /\ recorded' = IF ResponseResult.present
                   THEN Recorded(createExecutionTrace(currentPlan, ResultTraceStatus(ResponseResult.status), ResponseResult))
                   ELSE recorded
    /\ executions' = IF ResponseResult.present
                     THEN Publish(executions,
                              createExecutionTrace(currentPlan, ResultTraceStatus(ResponseResult.status), ResponseResult))
                     ELSE executions
    /\ currentPlan' = IF ClearsPlan(request.action) THEN 0 ELSE currentPlan
    /\ isLoading' = Finally(FALSE)
    /\ request' = NoRequest
    /\ UNCHANGED <<userApproved, devMode>>
    /\ UNCHANGED backendVars /\ UNCHANGED chorusVars /\ UNCHANGED mcpVars /\ UNCHANGED streamVars
    /\ activeAgents' =
          LET updated == IF ResponseResult.present
                         THEN UpdateAgents(createExecutionTrace(currentPlan,
                                  ResultTraceStatus(ResponseResult.status), ResponseResult))
                         ELSE activeAgents
          IN IF ClearsPlan(request.action) THEN handleExecutionComplete(updated) ELSE updated

\* handleApprove's catch block and finally: fetch threw, the 180 s abort
\* fired, or the body was not JSON.  currentPlan is kept.
ApproveThrow ==
    /\ request.kind = "approve"
    /\ CanRecord
    /\ recorded' = Recorded(createExecutionTrace(currentPlan, "failed", NoResult))
    /\ executions' = Publish(executions, createExecutionTrace(currentPlan, "failed", NoResult))
    /\ isLoading' = Finally(TRUE)
    /\ request' = NoRequest
    /\ UNCHANGED <<currentPlan, userApproved, devMode>>
    /\ UNCHANGED backendVars /\ UNCHANGED chorusVars /\ UNCHANGED mcpVars /\ UNCHANGED streamVars
    /\ activeAgents' = UpdateAgents(createExecutionTrace(currentPlan, "failed", NoResult))

\* ========================================= handleChorusTool: full review
\* The keys of PERSONAS.
PERSONAS == {"harsh_critic", "supportive_reader", "copy_editor",
             "genre_expert", "character_analyst", "devil_advocate"}

\* The persona keys a caller is modelled to pass: two known, one unknown.
InputKeys == {"harsh_critic", "copy_editor", "bogus"}

\* args.personas || [...]: the default applies when the argument is not given
\* (an empty array is truthy and is kept).
SelectedPersonas(arg) ==
    IF arg.given THEN arg.keys ELSE <<"harsh_critic", "supportive_reader", "copy_editor">>

PersonaArgs ==
    {[given |-> FALSE, keys |-> <<>>]} \cup
    {[given |-> TRUE, keys |-> s] : s \in UNION {[1..n -> InputKeys] : n \in 0..MaxPersonas}}

Rejected == {"timeout", "error"}

\* case 'chorus_full_review' up to await Promise.all: each async callback
\* runs to its first await; an unknown persona resolves to null at once.
ChorusFullReview(arg) ==
    /\ review.state = "idle"
    /\ personas' = SelectedPersonas(arg)
    /\ feedback' = [k \in 1..Len(SelectedPersonas(arg)) |->
                       IF SelectedPersonas(arg)[k] \in PERSONAS THEN "pending" ELSE "null"]
    /\ review' = [state |-> "running", included |-> {}]
    /\ UNCHANGED backendVars /\ UNCHANGED clientVars /\ UNCHANGED streamVars /\ UNCHANGED mcpVars /\ UNCHANGED agentVars

\* anthropic.messages.create of persona k returned.
FeedbackResolves(k) ==
    /\ feedback[k] = "pending"
    /\ feedback' = [feedback EXCEPT ![k] = "ok"]
    /\ UNCHANGED <<personas, review>>
    /\ UNCHANGED backendVars /\ UNCHANGED clientVars /\ UNCHANGED streamVars /\ UNCHANGED mcpVars /\ UNCHANGED agentVars

\* anthropic.messages.create of persona k threw (request timeout or API error).
FeedbackRejects(k, why) ==
    /\ feedback[k] = "pending"
    /\ feedback' = [feedback EXCEPT ![k] = why]
    /\ UNCHANGED <<personas, review>>
    /\ UNCHANGED backendVars /\ UNCHANGED clientVars /\ UNCHANGED streamVars /\ UNCHANGED mcpVars /\ UNCHANGED agentVars

\* await Promise.all(feedbackPromises): rejects as soon as one promise has
\* rejected, resolves once all have resolved; then results.filter(r => r !== null).
PromiseAll(fb) ==
    IF \E k \in 1..Len(fb) : fb[k] \in Rejected
    THEN [state |-> "error", included |-> {}]
    ELSE [state |-> "ok", included |-> {k \in 1..Len(fb) : fb[k] = "ok"}]

ReviewReturns ==
    /\ review.state = "running"
    /\ \/ \E k \in 1..Len(feedback) : feedback[k] \in Rejected
       \/ \A k \in 1..Len(feedback) : feedback[k] # "pending"
    /\ review' = PromiseAll(feedback)
    /\ UNCHANGED <<personas, feedback>>
    /\ UNCHANGED backendVars /\ UNCHANGED clientVars /\ UNCHANGED streamVars /\ UNCHANGED mcpVars /\ UNCHANGED agentVars

NextChorus ==
    \/ \E arg \in PersonaArgs : ChorusFullReview(arg)
    \/ \E k \in 1..Len(feedback) : FeedbackResolves(k)
    \/ \E k \in 1..Len(feedback) : \E why \in Rejected : FeedbackRejects(k, why)
    \/ ReviewReturns

SpecChorus == Init /\ [][NextChorus]_vars

\* ===================================== observer channel and the Terminal
\* A line of the Terminal: a banner the Terminal writes itself, or the data
\* of a message; version n stands for the Trace after n updates.
Banner(text) == [kind |-> text, version |-> 0]
Snapshot(n) == [kind |-> "snapshot", version |-> n]
Delta(n) == [kind |-> "delta", version |-> n]

\* The Aggregator folds one more Dispatcher event into the Trace and pushes
\* the update to the subscriber, if there is one.
Emit ==
    /\ emitted < MaxUpdates
    /\ emitted' = emitted + 1
    /\ wire' = IF socket = "open" THEN Append(wire, Delta(emitted + 1)) ELSE wire
    /\ UNCHANGED <<socket, logs>>
    /\ UNCHANGED backendVars /\ UNCHANGED clientVars /\ UNCHANGED chorusVars /\ UNCHANGED mcpVars /\ UNCHANGED agentVars

\* The Terminal mounts: fresh state, and useEffect opens a WebSocket under a
\* new client id.
TerminalMount ==
    /\ socket = "none"
    /\ socket' = "connecting"
    /\ logs' = <<>>
    /\ wire' = <<>>
    /\ UNCHANGED emitted
    /\ UNCHANGED backendVars /\ UNCHANGED clientVars /\ UNCHANGED chorusVars /\ UNCHANGED mcpVars /\ UNCHANGED agentVars

\* The server accepts the connection and sends the current full Trace;
\* socket.onopen writes the two banner lines.
SocketOpen ==
    /\ socket = "connecting"
    /\ socket' = "open"
    /\ logs' = logs \o <<Banner("> System link established"), Banner("> Waiting for agent stream...")>>
    /\ wire' = <<Snapshot(emitted)>>
    /\ UNCHANGED emitted
    /\ UNCHANGED backendVars /\ UNCHANGED clientVars /\ UNCHANGED chorusVars /\ UNCHANGED mcpVars /\ UNCHANGED agentVars

\* Mutant of OnMessage: the new line is put in front of the others.
OnMessageInFront(prev, data) == <<data>> \o prev

\* socket.onmessage: setLogs(prev => [...prev, event.data]).
OnMessage(prev, data) == Append(prev, data)

\* The message at the head of the connection is delivered.
SocketMessage ==
    /\ socket = "open"
    /\ wire # <<>>
    /\ logs' = OnMessage(logs, Head(wire))
    /\ wire' = Tail(wire)
    /\ UNCHANGED <<emitted, socket>>
    /\ UNCHANGED backendVars /\ UNCHANGED clientVars /\ UNCHANGED chorusVars /\ UNCHANGED mcpVars /\ UNCHANGED agentVars

\* The connection is lost: socket.onclose writes its banner; what was in
\* flight is gone.  The Terminal does not reconnect by itself.
SocketClose ==
    /\ socket = "open"
    /\ socket' = "closed"
    /\ logs' = Append(logs, Banner("> System link terminated"))
    /\ wire' = <<>>
    /\ UNCHANGED emitted
    /\ UNCHANGED backendVars /\ UNCHANGED clientVars /\ UNCHANGED chorusVars /\ UNCHANGED mcpVars /\ UNCHANGED agentVars

\* The Terminal unmounts (the page is left or reloaded): the cleanup closes
\* the socket and the state of the component is dropped.
TerminalUnmount ==
    /\ socket \in {"connecting", "open", "closed"}
    /\ socket' = "none"
    /\ logs' = <<>>
    /\ wire' = <<>>
    /\ UNCHANGED emitted
    /\ UNCHANGED backendVars /\ UNCHANGED clientVars /\ UNCHANGED chorusVars /\ UNCHANGED mcpVars /\ UNCHANGED agentVars

NextStream ==
    \/ Emit
    \/ TerminalMount
    \/ SocketOpen
    \/ SocketMessage
    \/ SocketClose
    \/ TerminalUnmount

SpecStream == Init /\ [][NextStream]_vars

\* ================================== MCP server: CallToolRequestSchema handler
\* The tool calls one server process handles.
MaxCalls == 4

\* A tool name, split at the prefix name.startsWith tests.
ToolNames ==
    {[prefix |-> "memory_", tool |-> "start_session"],
     [prefix |-> "memory_", tool |-> "end_session"],
     [prefix |-> "memory_", tool |-> "forget"],
     [prefix |-> "drive_", tool |-> "read_file"],
     [prefix |-> "chorus_", tool |-> "get_feedback"],
     [prefix |-> "web_", tool |-> "search"]}

\* args.summary of memory_end_session.
Summaries == {"first draft of chapter 2", "outline"}

\* What a tool handler does: it returns a result or it throws an Error.
Returned(text) == [threw |-> FALSE, message |-> <<>>, text |-> text]
Threw(message) == [threw |-> TRUE, message |-> message, text |-> <<>>]

\* The rows of the sessions table with ended_at null.
OpenSessions(rows) == {k \in 1..Len(rows) : rows[k].ended_at = 0}

\* memory_end_session's select: .is('ended_at', null).order('started_at',
\* descending).limit(1).single(); 0 stands for data null (no such row).
CurrentSession(rows) ==
    IF OpenSessions(rows) = {} THEN 0
    ELSE CHOOSE k \in OpenSessions(rows) :
             \A j \in OpenSessions(rows) : rows[j].started_at <= rows[k].started_at

\* case 'memory_start_session': the selects read only; the insert adds a row
\* with started_at (the project is left out); supabase reports a failed
\* insert as data null, it does not throw.
StartSessionRows(rows, t, inserted) ==
    IF inserted THEN Append(rows, [started_at |-> t, ended_at |-> 0, summary |-> "none"]) ELSE rows

\* ... and the return reads session.id, which throws a TypeError on null.
StartSessionOutcome(inserted) ==
    IF inserted THEN Returned(<<"# Session Started">>)
    ELSE Threw(<<"Cannot read properties of null (reading 'id')">>)

\* case 'memory_end_session': the update runs only if (currentSession); its
\* own error is not looked at.
EndSessionRows(rows, t, summary, updated) ==
    IF CurrentSession(rows) # 0 /\ updated
    THEN [rows EXCEPT ![CurrentSession(rows)] = [@ EXCEPT !.ended_at = t, !.summary = summary]]
    ELSE rows

\* ... and the return is the same text in every case.
EndSessionOutcome(summary) == Returned(<<"Session ended. Summary saved:", summary>>)

\* handleMemoryTool: the rows after the call.
MemoryRows(tool, rows, t, summary, dbOk) ==
    CASE tool = "start_session" -> StartSessionRows(rows, t, dbOk)
      [] tool = "end_session" -> EndSessionRows(rows, t, summary, dbOk)
      [] OTHER -> rows

\* handleMemoryTool: what the call returns or throws.
MemoryOutcome(tool, summary, dbOk) ==
    CASE tool = "start_session" -> StartSessionOutcome(dbOk)
      [] tool = "end_session" -> EndSessionOutcome(summary)
      [] OTHER -> Threw(<<"Unknown memory tool: ", "memory_", tool>>)

\* handleDriveTool and handleChorusTool call Google Drive and the Anthropic
\* API: a call returns its text, or throws what the API threw.
RemoteOutcome(apiOk) == IF apiOk THEN Returned(<<"ok">>) ELSE Threw(<<"API error">>)

\* The try block of the request handler: the routing on the prefix.
Route(name, summary, ok) ==
    CASE name.prefix = "drive_" -> RemoteOutcome(ok)
      [] name.prefix = "memory_" -> MemoryOutcome(name.tool, summary, ok)
      [] name.prefix = "chorus_" -> RemoteOutcome(ok)
      [] OTHER -> Threw(<<"Unknown tool: ", name.prefix, name.tool>>)

\* Mutant of HandlerResult: there is no catch, the exception leaves the
\* handler and the SDK answers with a protocol error instead of a result.
HandlerResultNoCatch(outcome) ==
    IF outcome.threw THEN [isError |-> FALSE, text |-> <<>>]
    ELSE [isError |-> FALSE, text |-> outcome.text]

\* The request handler: what the handler returned, or the catch block's
\* result with isError true.
HandlerResult(outcome) ==
    IF outcome.threw THEN [isError |-> TRUE, text |-> <<"Error: ">> \o outcome.message]
    ELSE [isError |-> FALSE, text |-> outcome.text]

\* One tools/call request, from the routing to the result sent back.
CallTool(name, summary, ok) ==
    /\ now < MaxCalls
    /\ now' = now + 1
    /\ sessions' = IF name.prefix = "memory_"
                   THEN MemoryRows(name.tool, sessions, now + 1, summary, ok)
                   ELSE sessions
    /\ reply' = [name |-> name,
                 raised |-> Route(name, summary, ok).message,
                 result |-> HandlerResult(Route(name, summary, ok))]
    /\ UNCHANGED backendVars /\ UNCHANGED clientVars /\ UNCHANGED chorusVars /\ UNCHANGED streamVars
    /\ UNCHANGED agentVars

NextMcp == \E name \in ToolNames : \E summary \in Summaries : \E ok \in BOOLEAN : CallTool(name, summary, ok)

SpecMcp == Init /\ [][NextMcp]_vars

\* ------------------------------------------------------------------ Next
Next ==
    \/ SendMessage
    \/ IntentResponsePlan
    \/ IntentResponseNoPlan
    \/ IntentThrow
    \/ \E action \in {"approve", "cancel"} : HandleApprove(action)
    \/ BackendDecide
    \/ ApproveResponse
    \/ ApproveThrow
    \/ \E p \in PlanIds : DispatchBegin(p)
    \/ \E p \in PlanIds : \E i \in StepIdx(p) : StepCompleted(p, i)
    \/ \E p \in PlanIds : \E i \in StepIdx(p) : \E why \in {"error", "timeout"} : StepFailed(p, i, why)
    \/ \E p \in PlanIds : \E i \in StepIdx(p) : StepTransientError(p, i)
    \/ \E p \in PlanIds : Advance(p)
    \/ \E p \in PlanIds : Finish(p)
    \/ \E p \in PlanIds : Cancel(p)

Spec == Init /\ [][Next]_vars

\* handleApprove accepts 'modify' as well, though no button of the chat
\* passes it: the session in which a caller does.
NextModify ==
    \/ Next
    \/ HandleApprove("modify")

SpecModify == Init /\ [][NextModify]_vars

\* The session in which the workers report the tools they invoke
\* (StepToolUsed events).  Transient errors and their retries, which leave
\* the tool reports alone, are left to Spec.
NextTools ==
    \/ SendMessage
    \/ IntentResponsePlan
    \/ IntentResponseNoPlan
    \/ IntentThrow
    \/ \E action \in {"approve", "cancel"} : HandleApprove(action)
    \/ BackendDecide
    \/ ApproveResponse
    \/ ApproveThrow
    \/ \E p \in PlanIds : DispatchBegin(p)
    \/ \E p \in PlanIds : \E i \in StepIdx(p) : \E tool \in Tools : StepToolUsed(p, i, tool)
    \/ \E p \in PlanIds : \E i \in StepIdx(p) : StepCompleted(p, i)
    \/ \E p \in PlanIds : \E i \in StepIdx(p) : \E why \in {"error", "timeout"} : StepFailed(p, i, why)
    \/ \E p \in PlanIds : Advance(p)
    \/ \E p \in PlanIds : Finish(p)
    \/ \E p \in PlanIds : Cancel(p)

SpecTools == Init /\ [][NextTools]_vars

\* The session in which the user turns Dev Mode on and off, so that
\* ExecutionTraceView reads the executions.
NextView ==
    \/ Next
    \/ SetDevMode

SpecView == Init /\ [][NextView]_vars

\* The session in which the updates handed to handleExecutionUpdate are
\* recorded, up to MaxEvents of them.
NextReplay ==
    \/ Next
    \/ StartRecording

SpecReplay == Init /\ [][NextReplay]_vars

\* Fairness: the backend handles a request it received, every worker
\* invocation eventually resolves, the Dispatcher keeps going, and the
\* client handles a response that is ready.
LiveSpec ==
    /\ Spec
    /\ WF_vars(BackendDecide)
    /\ WF_vars(ApproveResponse)
    /\ \A p \in PlanIds : WF_vars(DispatchBegin(p) \/ Advance(p) \/ Finish(p))
    /\ \A p \in PlanIds : WF_vars(\E i \in StepIdx(p) :
            \/ StepCompleted(p, i)
            \/ \E why \in {"error", "timeout"} : StepFailed(p, i, why)
            \/ StepTransientError(p, i))

\* The session of the chat with a backend whose workers are not retried
\* and whose Plans nobody cancels behind the chat's back: what the chat
\* does is the same, the backend has fewer states.
NextChat ==
    \/ SendMessage
    \/ IntentResponsePlan
    \/ IntentResponseNoPlan
    \/ IntentThrow
    \/ \E action \in {"approve", "cancel"} : HandleApprove(action)
    \/ BackendDecide
    \/ ApproveResponse
    \/ ApproveThrow
    \/ \E p \in PlanIds : DispatchBegin(p)
    \/ \E p \in PlanIds : \E i \in StepIdx(p) : StepCompleted(p, i)
    \/ \E p \in PlanIds : \E i \in StepIdx(p) : \E why \in {"error", "timeout"} : StepFailed(p, i, why)
    \/ \E p \in PlanIds : Advance(p)
    \/ \E p \in PlanIds : Finish(p)

SpecChat == Init /\ [][NextChat]_vars

\* Fairness of the client alone: the abort timer of a request that is still
\* outstanding fires (120 s for sendMessage, 180 s for handleApprove).
LiveSpecAbort ==
    /\ SpecChat
    /\ WF_vars(IntentThrow)
    /\ WF_vars(ApproveThrow)

\* =============================================================== claims
\* The Step transition graph of the State Machine (4.1), stuttering included.
LegalStep(a, b) ==
    \/ a = b
    \/ <<a, b>> \in {<<"pending", "running">>, <<"running", "completed">>,
                     <<"running", "failed">>, <<"pending", "blocked">>}

\* C1: in every step of the system, the status of each Step of each Plan,
\* and the status of each Step of each published Trace, either stays the
\* same or moves along pending->running, running->completed,
\* running->failed or pending->blocked.
C1_StepStatusForward ==
    [][ /\ \A p \in PlanIds : \A i \in StepIdx(p) :
              LegalStep(stepStatus[p][i], stepStatus'[p][i])
        /\ \A k \in 1..Len(executions) : \A i \in 1..Len(executions[k].steps) :
              LegalStep(executions[k].steps[i].status, executions'[k].steps[i].status)
      ]_vars

\* C2: a Plan is running or finished, or one of its Steps has left pending,
\* only if the gate accepted an approve decision for it; a Trace is running
\* or shows a started Step only if the user pressed Execute for that Plan; a
\* proposed or rejected Plan has every Step pending.
C2_NoDispatchWithoutApproval ==
    /\ \A p \in PlanIds :
         (\/ planStatus[p] \in {"running", "completed", "failed"}
          \/ \E i \in StepIdx(p) : stepStatus[p][i] # "pending")
         => (decision[p] = "approve" /\ p \in userApproved)
    /\ \A p \in PlanIds :
         planStatus[p] \in {"proposed", "rejected"}
         => \A i \in StepIdx(p) : stepStatus[p][i] = "pending"
    /\ \A k \in 1..Len(executions) :
         (\/ executions[k].status = "running"
          \/ \E i \in 1..Len(executions[k].steps) : executions[k].steps[i].status # "pending")
         => executions[k].id \in userApproved

\* C2 witness: an approved Plan is running with a running Step, next to a
\* Trace that shows it running.
C2_Witness ==
    \E p \in PlanIds :
        /\ planStatus[p] = "running"
        /\ \E i \in StepIdx(p) : stepStatus[p][i] = "running"
        /\ \E k \in 1..Len(executions) : executions[k].id = p /\ executions[k].status = "running"

C5_ApprovedPlanTerminates ==
    \A p \in PlanIds :
        [](decision[p] = "approve"
           => <>(/\ planStatus[p] \in {"completed", "failed"}
                 /\ \A k \in 1..Len(executions) :
                       executions[k].id = p => executions[k].status # "running"))

\* C6: when the gate handles a decide call, a Plan without a decision gets
\* one (accepted or declined, Plan approved or rejected), and a Plan with a
\* decision gets AlreadyDecided with the backend state unchanged.
C6_SecondDecideRejected ==
    [][ (request.kind = "approve" /\ request.stage = "sent"
         /\ request'.kind = "approve" /\ request'.stage # "sent")
        => IF decision[request.plan] = "none"
           THEN /\ request'.stage \in {"accepted", "declined"}
                /\ decision'[request.plan] \in {"approve", "reject"}
                /\ planStatus'[request.plan] \in {"approved", "rejected"}
           ELSE /\ request'.stage = "AlreadyDecided"
                /\ UNCHANGED backendVars
      ]_vars

\* C6 witness: a decide call on an already decided Plan was answered
\* AlreadyDecided.
C6_Witness ==
    /\ request.stage = "AlreadyDecided"
    /\ decision[request.plan] # "none"

\* C7: once chorus_full_review has returned, every persona whose call
\* finished has its feedback in the review, whether or not another
\* persona's call timed out.
C7_SiblingsKept ==
    \A k \in 1..Len(feedback) :
        (review.state \in {"ok", "error"} /\ feedback[k] = "ok")
        => (review.state = "ok" /\ k \in review.included)

\* C8: when every Step of a tier is failed, every Step of a later tier is
\* pending or blocked, and blocked once the Plan is finished; in a Trace,
\* when every Step of a tier is failed, every Step of a later tier is blocked.
C8_CascadingBlock ==
    /\ \A p \in PlanIds : \A t \in 1..Len(tiers[p]) :
         (TierSteps(p, t) # {} /\ TierAllFailed(p, t))
         => \A j \in StepIdx(p) : tiers[p][j] > t =>
               /\ stepStatus[p][j] \in {"pending", "blocked"}
               /\ planStatus[p] \in {"completed", "failed"} => stepStatus[p][j] = "blocked"
    /\ \A k \in 1..Len(executions) : \A i \in 1..Len(executions[k].steps) :
         (\A j \in 1..Len(executions[k].steps) :
              executions[k].steps[j].order = executions[k].steps[i].order
              => executions[k].steps[j].status = "failed")
         => \A j \in 1..Len(executions[k].steps) :
              executions[k].steps[j].order > executions[k].steps[i].order
              => executions[k].steps[j].status = "blocked"

\* C8 witness: without any cancel, tier 1 of a Plan failed entirely and a
\* Step of tier 2 is blocked, in the Plan and in its Trace.
C8_Witness ==
    \E p \in PlanIds \ cancelled : \E j \in StepIdx(p) :
        /\ TierAllFailed(p, 1)
        /\ tiers[p][j] = 2 /\ stepStatus[p][j] = "blocked"
        /\ \E k \in 1..Len(executions) :
              executions[k].id = p /\ executions[k].steps[j].status = "blocked"

C10_BoundedRetries ==
    [][ \A p \in PlanIds : \A i \in StepIdx(p) :
          /\ attempts'[p][i] <= MaxRetries
          /\ attempts'[p][i] > attempts[p][i]
             => /\ attempts'[p][i] = attempts[p][i] + 1
                /\ stepStatus[p][i] = "running" /\ stepStatus'[p][i] = "running"
                /\ stepError'[p][i] = "none"
          /\ (stepError[p][i] # "transient" /\ stepError'[p][i] = "transient")
             => /\ attempts[p][i] = MaxRetries
                /\ stepStatus[p][i] = "running" /\ stepStatus'[p][i] = "failed"
      ]_vars

\* C10 witness: a Step failed because its retries were used up.
C10_Witness ==
    \E p \in PlanIds : \E i \in StepIdx(p) :
        stepStatus[p][i] = "failed" /\ stepError[p][i] = "transient"

\* The statuses that are a Plan's (or a Trace's) verdict.
Verdict == {"completed", "failed"}

\* C11: in every step of the system, a Plan that is completed or failed
\* keeps its status; a Plan becomes completed or failed only in a step after
\* which each of its Steps is terminal; a Trace that is completed or failed
\* keeps its status; and a Trace becomes completed or failed only with each
\* of its Steps terminal.
C11_VerdictOnceAndFinal ==
    [][ /\ \A p \in PlanIds :
              /\ planStatus[p] \in Verdict => planStatus'[p] = planStatus[p]
              /\ (planStatus[p] \notin Verdict /\ planStatus'[p] \in Verdict)
                 => \A i \in 1..Len(stepStatus'[p]) : stepStatus'[p][i] \in Terminal
        /\ \A k \in 1..Len(executions) :
              executions[k].status \in Verdict
              => executions'[k].status = executions[k].status
        /\ \A k \in 1..Len(executions') :
              (/\ executions'[k].status \in Verdict
               /\ (k > Len(executions) \/ executions[k].status \notin Verdict))
              => \A i \in 1..Len(executions'[k].steps) :
                     executions'[k].steps[i].status \in Terminal
      ]_vars

\* The statuses in which a Plan is finished for the gate: decided against,
\* or run to its verdict.
PlanTerminal == {"completed", "failed", "rejected"}

\* C12: a decide the client starts for a Plan that is completed, failed or
\* rejected changes no Trace; when the gate handles a decide for such a Plan
\* it does not answer with an error and changes no Plan, Step or Trace.
\* (cancel(plan_id) has no effect on such a Plan: Cancel is not enabled.)
C12_TerminalDecideIsNoOp ==
    [][ /\ (/\ request.kind = "none" /\ request'.kind = "approve"
            /\ planStatus[request'.plan] \in PlanTerminal)
           => executions' = executions
        /\ (/\ request.kind = "approve" /\ request.stage = "sent"
            /\ request'.kind = "approve" /\ request'.stage # "sent"
            /\ planStatus[request.plan] \in PlanTerminal)
           => /\ request'.stage # "AlreadyDecided"
              /\ UNCHANGED backendVars
              /\ executions' = executions
      ]_vars

\* C13: in every step of the system, when the gate handles a decide with
\* modify, it answers replan or AlreadyDecided and the status of every Plan
\* and of every Step is left as it is; a modify decision is recorded only
\* for the Plan the request names; a Plan for which
\* modify was decided stays proposed with every Step pending, is not
\* cancelled and gets no other decision; a Plan that comes into being is
\* proposed, undecided, and is none of the Plans decided so far.
C13_ModifyIsNoTransition ==
    [][ /\ (/\ request.kind = "approve" /\ request.action = "modify"
            /\ request.stage = "sent"
            /\ request'.kind = "approve" /\ request'.stage # "sent")
           => /\ request'.stage \in {"replan", "AlreadyDecided"}
              /\ UNCHANGED <<planStatus, tiers, stepStatus, stepError, attempts, cancelled, toolsUsed>>
        /\ \A p \in PlanIds :
              /\ (decision[p] # "modify" /\ decision'[p] = "modify")
                 => request.plan = p /\ request.action = "modify"
              /\ decision'[p] = "modify"
                 => /\ planStatus'[p] = "proposed"
                    /\ \A i \in 1..Len(stepStatus'[p]) : stepStatus'[p][i] = "pending"
                    /\ p \notin cancelled'
              /\ decision[p] = "modify" => decision'[p] = "modify"
        /\ \A q \in PlanIds :
              (planStatus[q] = "none" /\ planStatus'[q] # "none")
              => /\ planStatus'[q] = "proposed"
                 /\ decision'[q] = "none"
                 /\ \A p \in PlanIds : decision[p] # "none" => q # p
      ]_vars

\* C13 witness: modify was decided for a Plan, and the planner has proposed
\* another Plan after it.
C13_Witness ==
    \E p \in PlanIds : \E q \in PlanIds :
        /\ decision[p] = "modify" /\ planStatus[p] = "proposed"
        /\ q > p /\ planStatus[q] = "proposed" /\ currentPlan = q

IsPrefix(a, b) == Len(a) <= Len(b) /\ \A n \in 1..Len(a) : a[n] = b[n]

InvocationFailures == {"error", "timeout", "transient"}

\* C16: in every step of the system, a Step that is failed has an error
\* recorded, in the Plan and in every Trace; and when an invocation fails
\* (error, timeout, or retries used up) the Step goes from running to
\* failed while the Plan stays running and every other Step of the Plan is
\* left as it is: the Dispatcher goes on.
C16_FailureAbsorbed ==
    [][ /\ \A p \in PlanIds : \A i \in StepIdx(p) :
              /\ stepStatus'[p][i] = "failed" => stepError'[p][i] # "none"
              /\ (stepError[p][i] = "none" /\ stepError'[p][i] \in InvocationFailures)
                 => /\ stepStatus[p][i] = "running" /\ stepStatus'[p][i] = "failed"
                    /\ planStatus[p] = "running" /\ planStatus'[p] = "running"
                    /\ \A j \in StepIdx(p) \ {i} :
                          stepStatus'[p][j] = stepStatus[p][j] /\ stepError'[p][j] = stepError[p][j]
        /\ \A k \in 1..Len(executions') : \A i \in 1..Len(executions'[k].steps) :
              executions'[k].steps[i].status = "failed"
              => executions'[k].steps[i].error # "none"
      ]_vars

\* C16 witness: a Trace shows a failed Step with the error of its invocation,
\* next to a Step of the same Plan that completed.
C16_Witness ==
    \E k \in 1..Len(executions) : \E i \in 1..Len(executions[k].steps) :
      \E j \in 1..Len(executions[k].steps) :
        /\ executions[k].steps[i].status = "failed"
        /\ executions[k].steps[i].error \in InvocationFailures
        /\ executions[k].steps[j].status = "completed"

PublishedTraces ==
    {createExecutionTrace(currentPlan, st, NoResult) : st \in {"running", "failed"}}
    \cup {createExecutionTrace(currentPlan, ResultTraceStatus(planStatus[currentPlan]), ExecutionResult(currentPlan))}

\* C18: in every step of the system, when ExecutionTraceView is mounted or
\* unmounted (it reads the executions when mounted) the executions, the
\* list the view shows for them, and the Plans are left as they are, so a
\* second read with no update in between shows the same Traces; and an
\* update rendered by the mounted view leaves the executions as the update
\* alone made them.
C18_ReadChangesNothing ==
    [][ /\ devMode' # devMode
           => /\ executions' = executions
              /\ ExecutionTraceViewItems(executions') = ExecutionTraceViewItems(executions)
              /\ UNCHANGED backendVars
        /\ (devMode /\ executions' # executions)
           => /\ currentPlan # 0
              /\ \E t \in PublishedTraces : executions' = handleExecutionUpdate(executions, t)
      ]_vars

\* C18 witness: the view is mounted and shows two Traces, the newer first.
C18_Witness ==
    /\ devMode
    /\ Len(executions) = 2
    /\ ExecutionTraceViewItems(executions)[1] = executions[2]
    /\ executions[1] # executions[2]

\* The recorded updates of Plan p, in order.
EventsOf(p) == SelectSeq(recorded.events, LAMBDA e : e.id = p)

\* The recorded updates fed, in order, to a fresh list of executions.
RECURSIVE Replay(_)
Replay(events) ==
    IF events = <<>> THEN <<>>
    ELSE handleExecutionUpdate(Replay(SubSeq(events, 1, Len(events) - 1)), events[Len(events)])

\* The Trace of Plan p in a list of executions, as a list of none or one.
TraceOf(ex, p) == IF FindExecution(ex, p) = 0 THEN <<>> ELSE <<ex[FindExecution(ex, p)]>>

\* C19: in every reachable state in which the updates are recorded, for
\* every completed Plan with recorded updates: feeding its recorded updates,
\* in order, to a fresh list of executions yields exactly the Trace the
\* executions of the session hold for that Plan.
C19_ReplayReproducesTrace ==
    recorded.on =>
        \A p \in PlanIds :
            (planStatus[p] = "completed" /\ EventsOf(p) # <<>>)
            => Replay(EventsOf(p)) = TraceOf(executions, p)

\* C19 witness: the recorded updates of a completed Plan, the last of them
\* its completed Trace, are interleaved in the record with the updates of
\* another Plan.
C19_Witness ==
    /\ recorded.on
    /\ \E p \in PlanIds :
          /\ planStatus[p] = "completed"
          /\ Len(EventsOf(p)) >= 2
          /\ EventsOf(p)[Len(EventsOf(p))].status = "completed"
          /\ \E n \in 1..Len(recorded.events) : \E m \in 1..Len(recorded.events) :
                n < m /\ recorded.events[n].id # p /\ recorded.events[m].id = p

\* The lines of the Terminal that are message data, in order.
Received == SelectSeq(logs, LAMBDA l : l.kind \in {"snapshot", "delta"})

TracesOf(ex, p) == SelectSeq(ex, LAMBDA e : e.id = p)

\* C21: in every step of the system at most one Plan has its status, its
\* Steps, its decision or its Trace changed; and a step of the chat on an
\* approve request (starting it, or handling its response or its failure)
\* changes no Trace but that of the Plan the request names.
C21_PlansIndependent ==
    [][ /\ \A p \in PlanIds : \A q \in PlanIds \ {p} :
              ~ /\ \/ planStatus'[p] # planStatus[p] \/ stepStatus'[p] # stepStatus[p]
                    \/ stepError'[p] # stepError[p] \/ decision'[p] # decision[p]
                    \/ TracesOf(executions', p) # TracesOf(executions, p)
                /\ \/ planStatus'[q] # planStatus[q] \/ stepStatus'[q] # stepStatus[q]
                    \/ stepError'[q] # stepError[q] \/ decision'[q] # decision[q]
                    \/ TracesOf(executions', q) # TracesOf(executions, q)
        /\ \A q \in PlanIds :
              TracesOf(executions', q) # TracesOf(executions, q)
              => \/ request.kind = "approve" /\ request.plan = q
                 \/ request.kind = "none" /\ request'.kind = "approve" /\ request'.plan = q
      ]_vars

\* C21 witness: two Plans are under way at once, the first running at the
\* backend with its Trace published, the second approved by the user.
C21_Witness ==
    \E p \in PlanIds : \E q \in PlanIds \ {p} :
        /\ planStatus[p] = "running" /\ planStatus[q] \in {"approved", "running"}
        /\ TracesOf(executions, p) # <<>> /\ TracesOf(executions, q) # <<>>

\* The orders in which a response may list n step results.
Orders(n) == {f \in [1..n -> 1..n] : \A a \in 1..n : \A b \in 1..n : f[a] = f[b] => a = b}

\* The execution result of Plan p with its step results listed in order f.
Reordered(p, f) ==
    [ExecutionResult(p) EXCEPT !.step_results = [i \in StepIdx(p) |-> ExecutionResult(p).step_results[f[i]]]]

\* The Steps are those fixed at proposal, in that order: ids 1, 2, ... with
\* the tier each was proposed in.
AsProposed(steps, p) ==
    /\ Len(steps) = Len(tiers[p])
    /\ \A i \in 1..Len(steps) : steps[i].id = i /\ steps[i].order = tiers[p][i]

\* C22: in every reachable state, every Plan has as many Steps as were
\* proposed; every Trace lists, as ExecutionItem shows it, the Steps of its
\* Plan in the order fixed at proposal; and the Trace built from the result
\* of a finished Plan does so in whatever order the result lists the Steps.
C22_StepOrderFixed ==
    /\ \A p \in PlanIds :
          /\ Len(stepStatus[p]) = Len(tiers[p])
          /\ planStatus[p] \in Verdict
             => \A f \in Orders(Len(tiers[p])) :
                   AsProposed(ExecutionItemSteps(
                       createExecutionTrace(p, ResultTraceStatus(planStatus[p]), Reordered(p, f)).steps), p)
    /\ \A k \in 1..Len(executions) :
          AsProposed(ExecutionItemSteps(executions[k].steps), executions[k].id)

\* C22 witness: a Trace lists a Step that failed before a Step of the same
\* tier that completed.
C22_Witness ==
    \E k \in 1..Len(executions) : \E i \in 1..Len(executions[k].steps) :
      \E j \in 1..Len(executions[k].steps) :
        /\ i < j /\ executions[k].steps[i].order = executions[k].steps[j].order
        /\ executions[k].steps[i].status = "failed"
        /\ executions[k].steps[j].status = "completed"

\* The session the most recent memory_start_session opened: the last row
\* inserted, 0 when there is none.
LastStarted(rows) == Len(rows)

\* C23: whenever a memory_end_session call has just reported that the
\* session ended and the summary was saved, the session opened by the most
\* recent memory_start_session holds that summary and has its end time set.
C23_SummaryStoredOnSession ==
    (/\ reply.name = [prefix |-> "memory_", tool |-> "end_session"]
     /\ ~reply.result.isError)
    => /\ LastStarted(sessions) # 0
       /\ sessions[LastStarted(sessions)].summary = reply.result.text[2]
       /\ sessions[LastStarted(sessions)].ended_at # 0

\* The prefixes the request handler routes to a tool handler.
KnownPrefixes == {"drive_", "memory_", "chorus_"}

\* C29: after every tool call, if the drive_, memory_ or chorus_ handler
\* raised an exception, or the name has none of the three prefixes, the
\* request handler has returned a result with isError true whose text is
\* 'Error: ' followed by the message of the exception.
C29_ErrorsBecomeResults ==
    reply.name.prefix # "none"
    => /\ reply.name.prefix \notin KnownPrefixes => reply.raised # <<>>
       /\ reply.raised # <<>>
          => reply.result = [isError |-> TRUE, text |-> <<"Error: ">> \o reply.raised]

\* A memory_start_session whose insert failed, and a call of a tool with an
\* unknown prefix later on, each answered with an error result.
C29_Witness ==
    /\ now >= 2
    /\ reply.name.prefix = "web_"
    /\ reply.result.isError
    /\ reply.result.text = <<"Error: ", "Unknown tool: ", "web_", "search">>
    /\ sessions = <<>>

\* C30: at most one row of the sessions table has no end time.
C30_OneOpenSession == Cardinality(OpenSessions(sessions)) <= 1

\* C24: when handleApprove issues a decide request for a Plan, no decide
\* request was issued for that Plan before.  (An earlier decide request for
\* the Plan shown has left a Trace of it: the running one handleApprove
\* published, or the failed one of its catch block; a decide that was
\* answered has cleared the Plan, and no later Plan has its id.)
C24_OneDecidePerPlan ==
    [][ (request.kind = "none" /\ request'.kind = "approve")
        => TracesOf(executions, request'.plan) = <<>> ]_vars

\* C25: a request is started (by sendMessage or by handleApprove) only
\* while isLoading is false and no request is outstanding, and starting it
\* sets isLoading; isLoading is true exactly while a request is outstanding.
C25_OneRequestOutstanding ==
    [][ /\ (request' # request /\ request'.stage = "sent")
           => (~isLoading /\ request.kind = "none" /\ isLoading')
        /\ isLoading' <=> request'.kind # "none" ]_vars

\* An intent request is outstanding while a Plan that was sent to the
\* backend once, without an answer, is still the current one.
C25_Witness ==
    /\ isLoading
    /\ request.kind = "intent"
    /\ currentPlan # 0
    /\ TracesOf(executions, currentPlan) # <<>>

\* C26: whenever isLoading is true it is false again later on: every
\* sendMessage and handleApprove call that set it resets it, on a response,
\* on an error and on the abort timeout.
C26_LoadingEventuallyReset == isLoading ~> ~isLoading

\* A handleApprove call has ended in its catch block, and one that set
\* isLoading again has been answered: the chat is not locked.
C26_Witness ==
    /\ ~isLoading
    /\ request.kind = "none"
    /\ \E k \in 1..Len(executions) : executions[k].status = "failed"
    /\ \E k \in 1..Len(executions) : executions[k].status = "completed"

\* C27: no two entries of executions have the same plan id; a step that
\* changes executions either replaces one entry by a trace of the same id,
\* with the length and every other entry as they were, or appends a trace
\* whose id was not in the list.
C27_OneTracePerPlan ==
    [][ /\ \A j \in 1..Len(executions') : \A k \in 1..Len(executions') :
              executions'[j].id = executions'[k].id => j = k
        /\ executions' # executions
           => \/ /\ Len(executions') = Len(executions)
                 /\ \E k \in 1..Len(executions) :
                       /\ executions'[k].id = executions[k].id
                       /\ \A j \in 1..Len(executions) : j # k => executions'[j] = executions[j]
              \/ /\ Len(executions') = Len(executions) + 1
                 /\ SubSeq(executions', 1, Len(executions)) = executions
                 /\ \A k \in 1..Len(executions) :
                       executions[k].id # executions'[Len(executions')].id
      ]_vars

\* The trace of a second Plan was appended behind the first one and then
\* replaced by its completed trace.
C27_Witness ==
    /\ Len(executions) = 2
    /\ executions[1].id = 1
    /\ executions[2].id = 2
    /\ executions[2].status = "completed"

\* The trace handed to handleExecutionUpdate last, while an approve request
\* is in flight: the one of the Plan the request names.
LatestPublished == executions[FindExecution(executions, request.plan)]

\* C28: while no request is in flight no agent of the list is 'working';
\* when Willow is 'working' the latest published trace is running, and when
\* another agent is, that trace has a running Step of the agent's role.
C28_WorkingOnlyInFlight ==
    /\ request.kind = "none" => \A k \in 1..Len(activeAgents) : activeAgents[k].status # "working"
    /\ \A k \in 1..Len(activeAgents) :
          activeAgents[k].status = "working"
          => /\ request.kind = "approve"
             /\ FindExecution(executions, request.plan) # 0
             /\ k = 1 => LatestPublished.status = "running"
             /\ k > 1 => \E i \in 1..Len(LatestPublished.steps) :
                            /\ LatestPublished.steps[i].status = "running"
                            /\ AgentRole(LatestPublished.steps[i].id) = activeAgents[k].role

\* A second Execute for a Plan the gate had decided already was answered
\* without a result: the agents that worked are idle, the trace still says
\* running.
C28_Witness ==
    /\ request.kind = "none"
    /\ Len(activeAgents) = 3
    /\ \A k \in 1..Len(activeAgents) : activeAgents[k].status = "idle"
    /\ \E k \in 1..Len(executions) : executions[k].status = "running"

====
